---- MODULE Spec2Model ----
(***************************************************************************)
(* A model of casperfpga's LocalPcieTransport (transport_localpcie.py):    *)
(* target resolution, the memory-mapped register window, the bitstream     *)
(* extractor, and the session lifecycle with its template lock.            *)
(*                                                                         *)
(* Python values are modelled as follows.                                  *)
(*   bytes       a sequence of integers in 0..255                          *)
(*   str         a sequence of one-character strings                       *)
(*   None        the string "None"                                         *)
(*   a call      a record whose field kind is "return" or the name of the  *)
(*               exception the call raises                                 *)
(***************************************************************************)
EXTENDS Integers, Sequences, FiniteSets, TLC

VARIABLES
    pcie_xdma_dict,   \* resolver: the mapping handed to getXdmaIdFromTarget
    target,           \* resolver: the target of the last call
    resolved,         \* resolver: outcome of the last call
    fpg,              \* extractor: the raw image file of the last call
    extracted,        \* extractor: outcome of the last _extract_bitstream
    axil_mm,          \* window: the bytes of the mapping, by address
    io,               \* window: log of the read / blindwrite calls made
    pc,               \* session: lifecycle position of the object
    attrs,            \* session: instance attributes bound so far
    fh_state,         \* session: control-plane file handle
    mm_state,         \* session: memory mapping
    fpg_template,     \* session: recorded template tag
    axid,             \* session: writes received by the streaming device
    call              \* session: the last __init__ / upload / __del__ call

vars == << pcie_xdma_dict, target, resolved, fpg, extracted, axil_mm, io,
           pc, attrs, fh_state, mm_state, fpg_template, axid, call >>

resolverVars  == << pcie_xdma_dict, target, resolved >>
extractorVars == << fpg, extracted >>
windowVars    == << axil_mm, io >>
sessionVars   == << pc, attrs, fh_state, mm_state, fpg_template, axid, call >>

None == "None"

(***************************************************************************)
(* Bounds of the model.                                                    *)
(***************************************************************************)
MaxSuffixLen == 2     \* longest target suffix after "pcie" / "xdma"
MaxTargetInt == 12    \* largest bare integer target
MaxHeaderBlocks == 2  \* header lengths reach this many 1024-byte blocks
MaxProgBlocks == 2    \* payload lengths reach this many 1024-byte blocks
MaxCalls == 2         \* read / blindwrite calls made on one window
MaxUploads == 2       \* upload calls made on one session

Min(a, b) == IF a < b THEN a ELSE b
Max(a, b) == IF a > b THEN a ELSE b

(***************************************************************************)
(* Python str helpers.                                                     *)
(***************************************************************************)
Digits == << "0", "1", "2", "3", "4", "5", "6", "7", "8", "9" >>

IsDigit(c) == \E i \in 1..10 : Digits[i] = c

DigitVal(c) == (CHOOSE i \in 1..10 : Digits[i] = c) - 1

\* str.startswith
StartsWith(s, p) == Len(s) >= Len(p) /\ SubSeq(s, 1, Len(p)) = p

\* s[n:] for 0 <= n
From(s, n) == SubSeq(s, Min(n, Len(s)) + 1, Len(s))

\* "%d" % n and f"{n}" for n >= 0
RECURSIVE StrOfNat(_)
StrOfNat(n) == IF n < 10 THEN << Digits[n + 1] >>
               ELSE StrOfNat(n \div 10) \o << Digits[(n % 10) + 1] >>

RECURSIVE DigitsValue(_, _)
DigitsValue(s, acc) == IF s = << >> THEN acc
                       ELSE DigitsValue(Tail(s), 10 * acc + DigitVal(Head(s)))

RECURSIVE LStrip(_)
LStrip(s) == IF s # << >> /\ Head(s) = " " THEN LStrip(Tail(s)) ELSE s

RECURSIVE RStrip(_)
RStrip(s) == IF s # << >> /\ s[Len(s)] = " "
             THEN RStrip(SubSeq(s, 1, Len(s) - 1)) ELSE s

\* int(s) for a str s: surrounding whitespace is dropped, one sign is
\* allowed, and what remains must be a non-empty run of decimal digits.
PyIntOfStr(s) ==
    LET t    == RStrip(LStrip(s))
        neg  == t # << >> /\ Head(t) = "-"
        sgn  == t # << >> /\ Head(t) \in {"-", "+"}
        body == IF sgn THEN Tail(t) ELSE t
    IN  IF body # << >> /\ \A i \in 1..Len(body) : IsDigit(body[i])
        THEN [kind |-> "return",
              value |-> IF neg THEN 0 - DigitsValue(body, 0)
                        ELSE DigitsValue(body, 0)]
        ELSE [kind |-> "ValueError"]

\* int(target) for the three shapes of target the model draws
PyInt(t) ==
    CASE t.type = "int" -> [kind |-> "return", value |-> t.i]
      [] t.type = "str" -> PyIntOfStr(t.s)
      [] OTHER          -> [kind |-> "TypeError"]

(***************************************************************************)
(* DeviceResolver: getXdmaIdFromTarget.                                    *)
(***************************************************************************)
PCIE == << "p", "c", "i", "e" >>
XDMA == << "x", "d", "m", "a" >>

\* pcie_xdma_dict.values()
Values(d) == { d[k] : k \in DOMAIN d }

\* the dict comprehension formatted into the RuntimeError message
ValidPairs(d) == { << PCIE \o k, XDMA \o StrOfNat(d[k]) >> : k \in DOMAIN d }

NotRecognised(d) == [kind |-> "RuntimeError", pairs |-> ValidPairs(d)]

\* lines 162-176: the bare-integer attempt, then the error
IntBranch(t, d) ==
    LET n == PyInt(t)
    IN  IF n.kind = "return" /\ n.value \in Values(d)
        THEN [kind |-> "return", value |-> n.value]
        ELSE NotRecognised(d)

\* the suffix cut one character early: target[3:]
XdmaBranchCutEarly(t, d) ==
    LET n == PyIntOfStr(From(t.s, 3))
    IN  IF n.kind # "return" THEN [kind |-> "ValueError"]
        ELSE IF n.value \in Values(d)
        THEN [kind |-> "return", value |-> n.value]
        ELSE IntBranch(t, d)

\* lines 156-160: the "xdma" prefix; int() is evaluated outside any try
XdmaBranch(t, d) ==
    LET n == PyIntOfStr(From(t.s, 4))
    IN  IF n.kind # "return" THEN [kind |-> "ValueError"]
        ELSE IF n.value \in Values(d)
        THEN [kind |-> "return", value |-> n.value]
        ELSE IntBranch(t, d)

\* lines 149-154: the "pcie" prefix
PcieBranch(t, d) ==
    LET pci_id == From(t.s, 4)
    IN  IF pci_id \in DOMAIN d
        THEN [kind |-> "return", value |-> d[pci_id]]
        ELSE IntBranch(t, d)

getXdmaIdFromTarget(t, d) ==
    IF t.type = "str" /\ StartsWith(t.s, PCIE) THEN PcieBranch(t, d)
    ELSE IF t.type = "str" /\ StartsWith(t.s, XDMA) THEN XdmaBranch(t, d)
    ELSE IntBranch(t, d)

(***************************************************************************)
(* BitstreamExtractor: _extract_bitstream.                                 *)
(***************************************************************************)
\* "\n?quit\n".encode()
SENTINEL == << 10, 63, 113, 117, 105, 116, 10 >>

\* b"\x1f\x8b\x08"
GZIP_MAGIC == << 31, 139, 8 >>

\* b"0"
PAD == 48

PadUnit == 1024

\* b"0" * n
Zeros(n) == [i \in 1..n |-> PAD]

\* bytes.find(pat): index of the first occurrence, -1 when there is none
Find(s, pat) ==
    LET hits == { i \in 0..(Len(s) - Len(pat)) :
                    \A j \in 1..Len(pat) : s[i + j] = pat[j] }
    IN  IF hits = {} THEN -1
        ELSE CHOOSE i \in hits : \A k \in hits : i <= k

\* s[0:n] and s[n:] for n >= 0
Upto(s, n) == SubSeq(s, 1, Min(n, Len(s)))

\* zlib.decompress(prog, 16 + MAX_WBITS).  DEFLATE itself is abstracted: a
\* member is the magic, one length byte n, and n stored bytes; whatever
\* follows the member is ignored, a truncated member is an error.
zlib_decompress(prog) ==
    IF Len(prog) >= 4 /\ Len(prog) >= 4 + prog[4]
    THEN [kind |-> "return", data |-> SubSeq(prog, 5, 4 + prog[4])]
    ELSE [kind |-> "zlib.error"]

\* hashlib.md5 of the file, kept as the content it identifies
md5(data) == [digest_of |-> data]

\* line 95
HeaderOf(file, header_offset) ==
    Upto(file, header_offset) \o Zeros(PadUnit - (header_offset % PadUnit))

\* line 96
ProgOf(file, header_offset) ==
    From(file, header_offset)
        \o Zeros(PadUnit - ((Len(file) - header_offset) % PadUnit))

\* line 94
HeaderOffset(file) == Find(file, SENTINEL) + 7

extract_bitstream(file) ==
    LET header_offset == HeaderOffset(file)
        header == HeaderOf(file, header_offset)
        prog   == ProgOf(file, header_offset)
    IN  IF StartsWith(prog, GZIP_MAGIC)
        THEN LET z == zlib_decompress(prog)
             IN  IF z.kind = "return"
                 THEN [kind |-> "return", header |-> header, prog |-> z.data,
                       md5 |-> md5(file)]
                 ELSE z
        ELSE [kind |-> "return", header |-> header, prog |-> prog,
              md5 |-> md5(file)]

(***************************************************************************)
(* RegisterWindow: _get_device_address, read, blindwrite.                  *)
(*                                                                         *)
(* The window and the write chunk are scaled down so that every byte of    *)
(* the mapping is part of the state: MAP_SIZE stands for the 8 MiB of      *)
(* line 15, block_size for the 4096 of line 233 and ADDR_LIMIT for the     *)
(* 2**32 of line 192 (an address space larger than the window).  The       *)
(* alignment unit and the translation offset keep their values.            *)
(***************************************************************************)
MAP_SIZE == 32
block_size == 8
AXIL_PCI_ADDR_TRANSLATION == 0
WORD == 4
ADDR_LIMIT == 4 * MAP_SIZE

\* self.memory_devices of the parent: register name -> absolute address
memory_devices ==
    [ sys |-> [address |-> 0],
      top |-> [address |-> MAP_SIZE - block_size] ]

StrDevice(n) == [type |-> "str", name |-> n]
IntDevice(i) == [type |-> "int", i |-> i]

get_device_address(device_name) ==
    IF device_name.type = "str" /\ device_name.name \in DOMAIN memory_devices
    THEN [kind |-> "return", value |-> memory_devices[device_name.name].address]
    ELSE IF device_name.type = "int" /\ 0 <= device_name.i /\ device_name.i < ADDR_LIMIT
    THEN [kind |-> "return", value |-> device_name.i]
    ELSE [kind |-> "ValueError"]

\* one bound of a Python slice over a buffer of n bytes (slice.indices)
SliceBound(x, n) ==
    IF x < 0 THEN Max(x + n, 0) ELSE Min(x, n)

SliceStart(start, n) == SliceBound(start, n)
SliceLen(start, stop, n) == Max(SliceBound(stop, n) - SliceBound(start, n), 0)

\* mmap.__getitem__ with a slice: mm[start:stop]
MmGet(mm, start, stop) ==
    LET s == SliceStart(start, MAP_SIZE)
        n == SliceLen(start, stop, MAP_SIZE)
    IN  [i \in 1..n |-> mm[s + i - 1]]

\* mmap.__setitem__ with a slice: mm[start:stop] = data
MmSet(mm, start, stop, data) ==
    LET s == SliceStart(start, MAP_SIZE)
        n == SliceLen(start, stop, MAP_SIZE)
    IN  IF Len(data) # n
        THEN [kind |-> "IndexError", mm |-> mm]
        ELSE [kind |-> "return",
              mm |-> [a \in DOMAIN mm |->
                        IF s <= a /\ a < s + n THEN data[a - s + 1] ELSE mm[a]]]

\* data[0 : n_bytes] : every chunk taken from the start of the payload
PieceFromStart(data, written, n_bytes) == SubSeq(data, 1, Min(n_bytes, Len(data)))

\* data[written : written + n_bytes]
Piece(data, written, n_bytes) ==
    SubSeq(data, Min(written, Len(data)) + 1, Min(written + n_bytes, Len(data)))

\* lines 234-240: iterations i .. n_iter - 1 of the chunk loop
RECURSIVE WriteChunks(_, _, _, _, _, _)
WriteChunks(mm, addr, data, written, i, n_iter) ==
    IF i >= n_iter THEN [kind |-> "return", mm |-> mm]
    ELSE LET n_bytes == Min(Len(data) - written, block_size)
         IN  IF n_bytes > 0
             THEN LET w == MmSet(mm, addr + written, addr + written + n_bytes,
                                 Piece(data, written, n_bytes))
                  IN  IF w.kind # "return" THEN w
                      ELSE WriteChunks(w.mm, addr, data, written + n_bytes,
                                       i + 1, n_iter)
             ELSE WriteChunks(mm, addr, data, written + n_bytes, i + 1, n_iter)

\* range(size // block_size) : the loop without its last iteration
ChunkCountShort(size) == size \div block_size

\* line 234: range(size // block_size + 1)
ChunkCount(size) == size \div block_size + 1

\* lines 228-230 and 209-211
Translate(base, offset) == base - AXIL_PCI_ADDR_TRANSLATION + offset

\* line 225 alone: the assert on the offset left out
AlignedLengthOnly(data, offset) == Len(data) % WORD = 0

\* lines 225-226 (data is bytes in every call the model makes)
Aligned(data, offset) == Len(data) % WORD = 0 /\ offset % WORD = 0

read(mm, device_name, size, offset) ==
    LET base == get_device_address(device_name)
    IN  IF base.kind # "return" THEN [kind |-> base.kind]
        ELSE LET addr == Translate(base.value, offset)
             IN  [kind |-> "return", value |-> MmGet(mm, addr, addr + size)]

blindwrite(mm, device_name, data, offset) ==
    IF ~Aligned(data, offset) THEN [kind |-> "AssertionError", mm |-> mm]
    ELSE LET base == get_device_address(device_name)
         IN  IF base.kind # "return" THEN [kind |-> base.kind, mm |-> mm]
             ELSE WriteChunks(mm, Translate(base.value, offset), data, 0, 0,
                              ChunkCount(Len(data)))

(***************************************************************************)
(* Transport: __init__, _parse_template_meta, upload_to_ram_and_program,   *)
(* __del__.                                                                *)
(*                                                                         *)
(* An image file is a record: fpg_ok says whether its name ends in ".fpg", *)
(* readable whether parse_fpg can read it, meta is the device-info dict    *)
(* parse_fpg returns for it (sections in declaration order, each a         *)
(* function from field names to values), bytes its raw content.            *)
(***************************************************************************)
\* lines 78-81: fpg_header[list(fpg_header.keys())[0]]["pr_template"], and
\* None whenever that expression raises
TemplateOf(meta) ==
    IF meta # << >> /\ "pr_template" \in DOMAIN meta[1].fields
    THEN meta[1].fields["pr_template"]
    ELSE None

\* lines 76-81; parse_fpg itself is called outside the try
parse_template_meta(image) ==
    IF ~image.readable THEN [kind |-> "IOError"]
    ELSE [kind |-> "return", value |-> TemplateOf(image.meta)]

\* line 251, with the test inverted for an image that declares no template
MismatchUnlessNone(current, template) == current # template /\ template # None

\* line 251
Mismatch(current, template) == current # template

\* lines 272-273
Adopt(current, template) ==
    IF current = None /\ template # None THEN template ELSE current

\* lines 247-275.  stream_ok: whether the streaming device accepts the write.
upload_to_ram_and_program(current, image, stream_ok) ==
    LET keep(k) == [kind |-> k, template |-> current, streamed |-> << >>]
        t == parse_template_meta(image)
    IN  IF ~image.fpg_ok THEN keep("AssertionError")
        ELSE IF t.kind # "return" THEN keep(t.kind)
        ELSE IF current # None /\ Mismatch(current, t.value)
        THEN [kind |-> "RuntimeError", template |-> current,
              streamed |-> << >>, programmed |-> current, supplied |-> t.value]
        ELSE LET x == extract_bitstream(image.bytes)
             IN  IF x.kind # "return" THEN keep(x.kind)
                 ELSE IF ~stream_ok THEN keep("OSError")
                 ELSE [kind |-> "return", template |-> Adopt(current, t.value),
                       streamed |-> << x.prog >>]

\* get_pcie_xdma_map() on the host of the session: two cards
HostMap == (<< "0", "1" >> :> 0) @@ (<< "0", "2" >> :> 1)

\* lines 37-74.  kw: the keyword arguments (fpgfile is << >> when absent,
\* else << image >>); open_ok, mmap_ok: whether the control-plane device can
\* be opened and mapped.  The result names the attributes bound when
\* __init__ returns or raises.
init(kw, open_ok, mmap_ok) ==
    LET r == getXdmaIdFromTarget(kw.host, HostMap)
        t == parse_template_meta(kw.fpgfile[1])
        out(k, as, o, m, tpl) ==
            [kind |-> k, attrs |-> as, opened |-> o, mapped |-> m, template |-> tpl]
    IN  IF ~kw.parent_fpga THEN out("RuntimeError", {}, 0, 0, None)
        ELSE IF r.kind # "return"
        THEN out(r.kind, { "parent", "logger" }, 0, 0, None)
        ELSE IF ~open_ok
        THEN out("OSError", { "parent", "logger", "instance_id" }, 0, 0, None)
        ELSE IF ~mmap_ok
        THEN out("OSError", { "parent", "logger", "instance_id", "fh" }, 1, 0, None)
        ELSE IF kw.fpgfile = << >>
        THEN out("return",
                 { "parent", "logger", "instance_id", "fh", "axil_mm", "fpg_template" },
                 1, 1, None)
        ELSE IF t.kind # "return"
        THEN out(t.kind,
                 { "parent", "logger", "instance_id", "fh", "axil_mm", "fpg_template" },
                 1, 1, None)
        ELSE out("return",
                 { "parent", "logger", "instance_id", "fh", "axil_mm", "fpg_template" },
                 1, 1, t.value)

\* lines 83-85: self.axil_mm.close(); self.fh.close()
del(as) ==
    IF "axil_mm" \notin as THEN [kind |-> "AttributeError", mm_closed |-> 0, fh_closed |-> 0]
    ELSE IF "fh" \notin as THEN [kind |-> "AttributeError", mm_closed |-> 1, fh_closed |-> 0]
    ELSE [kind |-> "return", mm_closed |-> 1, fh_closed |-> 1]

(***************************************************************************)
(* Resolver specification: a mapping is supplied, targets are resolved.    *)
(***************************************************************************)
Alphabet == { "0", "1", "2", "a", " ", "-" }

Suffixes == UNION { [1..n -> Alphabet] : n \in 0..MaxSuffixLen }

StrTarget(s) == [type |-> "str", s |-> s]
IntTarget(i) == [type |-> "int", i |-> i]
NoneTarget   == [type |-> "none"]

Targets ==
    { StrTarget(p \o s) : p \in { PCIE, XDMA, << >> }, s \in Suffixes }
        \cup { IntTarget(i) : i \in 0..MaxTargetInt }
        \cup { NoneTarget }

Maps ==
    { << >>,
      (<< "0", "1" >> :> 0),
      (<< "0", "1" >> :> 0) @@ (<< "0", "2" >> :> 1),
      (<< "a", "0" >> :> 10) @@ (<< "1" >> :> 2),
      (<< "0", "1" >> :> 1) @@ (<< "2", "a" >> :> 1),
      (<< "1", "2" >> :> 12) @@ (<< "0" >> :> 0) @@ (<< "a" >> :> 1) }

Idle == [kind |-> "idle"]
NoCall == [op |-> "none", n |-> 0, kind |-> "idle"]

IdleResolver  == pcie_xdma_dict = << >> /\ target = NoneTarget /\ resolved = Idle
IdleExtractor == fpg = << >> /\ extracted = Idle
IdleWindow    == axil_mm = << >> /\ io = << >>
IdleSession   == /\ pc = "idle"
                 /\ attrs = {}
                 /\ fh_state = [opened |-> 0, closed |-> 0]
                 /\ mm_state = [mapped |-> 0, closed |-> 0]
                 /\ fpg_template = None
                 /\ axid = << >>
                 /\ call = NoCall

InitResolve ==
    /\ pcie_xdma_dict \in Maps
    /\ target \in Targets
    /\ resolved = Idle
    /\ IdleExtractor /\ IdleWindow /\ IdleSession

Resolve ==
    /\ resolved = Idle
    /\ resolved' = getXdmaIdFromTarget(target, pcie_xdma_dict)
    /\ UNCHANGED << pcie_xdma_dict, target, extractorVars, windowVars, sessionVars >>

NextResolve == Resolve

SpecResolve == InitResolve /\ [][NextResolve]_vars

\* A target the mapping knows: "pcie" + a key, "xdma" + a numeral whose value
\* is among the values, or an integer (or numeral) among the values.
Known(t, d) ==
    \/ t.type = "str" /\ StartsWith(t.s, PCIE) /\ From(t.s, 4) \in DOMAIN d
    \/ /\ t.type = "str" /\ StartsWith(t.s, XDMA)
       /\ PyIntOfStr(From(t.s, 4)).kind = "return"
       /\ PyIntOfStr(From(t.s, 4)).value \in Values(d)
    \/ PyInt(t).kind = "return" /\ PyInt(t).value \in Values(d)

\* C4: every target unknown to the mapping fails with the resolution error
\* whose message enumerates the valid identifier pairs.
C4_UnknownTargetRejected ==
    (resolved # Idle /\ ~Known(target, pcie_xdma_dict))
        => resolved = NotRecognised(pcie_xdma_dict)

\* the part of C4 the code does keep: an unknown target never yields an id
C4_UnknownNeverReturns ==
    (resolved # Idle /\ ~Known(target, pcie_xdma_dict))
        => resolved.kind # "return"

\* an "xdma" target with a non-numeric suffix, resolved against a mapping
C4_Witness ==
    /\ resolved.kind = "ValueError"
    /\ target.type = "str" /\ StartsWith(target.s, XDMA)
    /\ pcie_xdma_dict # << >>

\* C5: for every pair (A, K) of the mapping, resolving "pcie" + A and
\* resolving "xdma" + K both return K.
C5_ResolveAgreement ==
    \A k \in DOMAIN pcie_xdma_dict :
        LET K == pcie_xdma_dict[k]
        IN  /\ (resolved # Idle /\ target = StrTarget(PCIE \o k))
                => resolved = [kind |-> "return", value |-> K]
            /\ (resolved # Idle /\ target = StrTarget(XDMA \o StrOfNat(K)))
                => resolved = [kind |-> "return", value |-> K]

C5_Witness ==
    /\ resolved = [kind |-> "return", value |-> 10]
    /\ target = StrTarget(XDMA \o << "1", "0" >>)
    /\ << "a", "0" >> \in DOMAIN pcie_xdma_dict

(***************************************************************************)
(* Extractor specification: image files are drawn and extracted.           *)
(***************************************************************************)
Fill(n, b) == [i \in 1..n |-> b]

\* header text of length H >= 7 that ends in the sentinel
HeaderText(H) == Fill(H - 7, 97) \o SENTINEL

HeaderLens ==
    { 7, 8, 500 } \cup { k * PadUnit + e : k \in 1..MaxHeaderBlocks, e \in { -1, 0, 1 } }

ProgLens ==
    { 0, 1, 3, 500 } \cup { k * PadUnit + e : k \in 1..MaxProgBlocks, e \in { -1, 0, 1 } }

\* payloads: plain bytes, bytes holding the sentinel again, a gzip member
PlainProg(L)   == Fill(L, 170)
EchoProg(L)    == IF L >= 8 THEN << 1 >> \o SENTINEL \o Fill(L - 8, 7) ELSE Fill(L, 7)
GzipProg(L)    == IF L >= 6 THEN GZIP_MAGIC \o << 2, 85, 86 >> \o Fill(L - 6, 0)
                  ELSE Upto(GZIP_MAGIC \o << 9 >>, L)

Images ==
    { HeaderText(H) \o P : H \in HeaderLens,
        P \in UNION { { PlainProg(L), EchoProg(L), GzipProg(L) } : L \in ProgLens } }

\* files without the sentinel anywhere
Headless ==
    { Fill(n, 97) : n \in { 0, 3, 6, 7, 500, PadUnit + 6 } }
        \cup { Upto(SENTINEL, 6) \o Fill(n, 170) : n \in { 0, 1, PadUnit } }

Files == Images \cup Headless

InitExtract ==
    /\ fpg \in Files
    /\ extracted = Idle
    /\ IdleResolver /\ IdleWindow /\ IdleSession

Extract ==
    /\ extracted = Idle
    /\ extracted' = extract_bitstream(fpg)
    /\ UNCHANGED << fpg, resolverVars, windowVars, sessionVars >>

NextExtract == Extract

SpecExtract == InitExtract /\ [][NextExtract]_vars

HasSentinel(f) == Find(f, SENTINEL) >= 0

\* ceil(n / 1024) * 1024
CeilPad(n) == ((n + PadUnit - 1) \div PadUnit) * PadUnit

\* s is the bytes orig followed only by padding
PaddedFrom(s, orig) ==
    /\ Len(s) >= Len(orig)
    /\ Upto(s, Len(orig)) = orig
    /\ \A i \in (Len(orig) + 1)..Len(s) : s[i] = PAD

\* C6: an image whose header text has length H and ends in the sentinel,
\* followed by a non-gzip payload of length L, is extracted into a header of
\* length ceil(H/1024)*1024 and a program of length ceil(L/1024)*1024, each
\* the original bytes followed only by padding.
C6_ExtractPaddingLengths ==
    (extracted # Idle /\ HasSentinel(fpg)
        /\ ~StartsWith(From(fpg, HeaderOffset(fpg)), GZIP_MAGIC))
    => LET H == HeaderOffset(fpg)
           L == Len(fpg) - H
       IN  /\ extracted.kind = "return"
           /\ Len(extracted.header) = CeilPad(H)
           /\ Len(extracted.prog) = CeilPad(L)
           /\ PaddedFrom(extracted.header, Upto(fpg, H))
           /\ PaddedFrom(extracted.prog, From(fpg, H))

\* what the code computes instead: each section grows to the next multiple
\* of 1024 strictly above its length
C6_StrictlyNextMultiple ==
    (extracted # Idle /\ HasSentinel(fpg)
        /\ ~StartsWith(From(fpg, HeaderOffset(fpg)), GZIP_MAGIC))
    => LET H == HeaderOffset(fpg)
           L == Len(fpg) - H
       IN  /\ extracted.kind = "return"
           /\ Len(extracted.header) = (H \div PadUnit + 1) * PadUnit
           /\ Len(extracted.prog) = (L \div PadUnit + 1) * PadUnit
           /\ PaddedFrom(extracted.header, Upto(fpg, H))
           /\ PaddedFrom(extracted.prog, From(fpg, H))

\* a header of exactly one block and an empty payload, extracted
C6_Witness ==
    /\ extracted # Idle /\ extracted.kind = "return"
    /\ HeaderOffset(fpg) = PadUnit /\ Len(fpg) = PadUnit
    /\ Len(extracted.header) = 2 * PadUnit
    /\ Len(extracted.prog) = PadUnit

\* C7 (extractor half): a file without the sentinel is not split
C7_ExtractFailsWithoutSentinel ==
    (extracted # Idle /\ ~HasSentinel(fpg)) => extracted.kind = "FormatError"

(***************************************************************************)
(* Window specification: reads and blind writes on one mapped window.      *)
(* io is the log of the calls made, latest last.                           *)
(***************************************************************************)
\* the payload of n bytes: byte i is 100 + i, so no two positions agree
Payload(n) == [i \in 1..n |-> 100 + i]

WriteLens == { 0, 2, 2 * WORD, 5 * WORD }
ReadSizes == { 3, 2 * WORD, 5 * WORD }
Offsets == { -2 * WORD, 0, 2 }
Devices ==
    { StrDevice("sys"), StrDevice("top"), StrDevice("nodev"), IntDevice(2) }

\* what the mapping holds when the session starts: register contents
ResetWindow == [a \in 0..(MAP_SIZE - 1) |-> a % 7]

InitWindow ==
    /\ axil_mm = ResetWindow
    /\ io = << >>
    /\ IdleResolver /\ IdleExtractor /\ IdleSession

Read ==
    /\ Len(io) < MaxCalls
    /\ \E dev \in Devices, size \in ReadSizes, off \in Offsets :
          LET r == read(axil_mm, dev, size, off)
          IN  io' = Append(io, [op |-> "read", device |-> dev, size |-> size,
                                offset |-> off, res |-> r])
    /\ UNCHANGED << axil_mm, resolverVars, extractorVars, sessionVars >>

Blindwrite ==
    /\ Len(io) < MaxCalls
    /\ \E dev \in Devices, len \in WriteLens, off \in Offsets :
          LET data == Payload(len)
              w == blindwrite(axil_mm, dev, data, off)
          IN  /\ axil_mm' = w.mm
              /\ io' = Append(io, [op |-> "blindwrite", device |-> dev,
                                   data |-> data, offset |-> off,
                                   res |-> [kind |-> w.kind]])
    /\ UNCHANGED << resolverVars, extractorVars, sessionVars >>

NextWindow == Read \/ Blindwrite

SpecWindow == InitWindow /\ [][NextWindow]_vars

Last(log) == log[Len(log)]

\* the translated start address of a logged call whose device resolves
AddrOf(c) == Translate(get_device_address(c.device).value, c.offset)
SizeOf(c) == IF c.op = "read" THEN c.size ELSE Len(c.data)
Resolves(c) == get_device_address(c.device).kind = "return"
InWindow(c) == Resolves(c) /\ 0 <= AddrOf(c) /\ AddrOf(c) + SizeOf(c) <= MAP_SIZE

WordAligned(c) == Len(c.data) % WORD = 0 /\ c.offset % WORD = 0

\* the bytes of [addr, addr + n) of a window all of whose addresses exist
Range(mm, addr, n) == [i \in 1..n |-> mm[addr + i - 1]]

\* C2: a read of the same device, offset and length issued right after a
\* valid aligned write inside the window returns exactly the written bytes.
C2_WriteReadRoundTrip ==
    \A i \in 1..(Len(io) - 1) :
        LET w == io[i]
            r == io[i + 1]
        IN  (/\ w.op = "blindwrite" /\ r.op = "read"
             /\ WordAligned(w) /\ InWindow(w)
             /\ r.device = w.device /\ r.offset = w.offset
             /\ r.size = Len(w.data))
            => /\ w.res.kind = "return"
               /\ r.res = [kind |-> "return", value |-> w.data]

C2_Witness ==
    /\ Len(io) = 2
    /\ io[1].op = "blindwrite" /\ io[1].device = StrDevice("sys")
    /\ io[1].offset = 0 /\ Len(io[1].data) = 5 * WORD
    /\ io[2].op = "read" /\ io[2].device = StrDevice("sys")
    /\ io[2].offset = 0 /\ io[2].size = 5 * WORD
    /\ io[2].res = [kind |-> "return", value |-> Payload(5 * WORD)]

\* the window after one contiguous assignment mm[addr : addr + len] = data
SingleShot(mm, addr, data) == MmSet(mm, addr, addr + Len(data), data)

C8_MisalignedRejected ==
    [][ /\ (Len(io') = Len(io) + 1 /\ Last(io').op = "blindwrite"
              /\ ~WordAligned(Last(io')))
           => (Last(io').res.kind = "AssertionError" /\ axil_mm' = axil_mm)
        /\ (axil_mm' # axil_mm)
           => (Last(io').op = "blindwrite" /\ WordAligned(Last(io'))) ]_vars

C8_Witness ==
    /\ Len(io) = 2
    /\ io[1].op = "blindwrite" /\ io[1].res.kind = "return"
    /\ axil_mm # ResetWindow
    /\ io[2].op = "blindwrite" /\ io[2].res.kind = "AssertionError"
    /\ io[2].offset = 2 /\ Len(io[2].data) = 2 * WORD
    /\ io[2].device = StrDevice("sys")

\* C9: a read that returns covers a translated range inside the window and
\* yields exactly its size bytes; a read or write whose translated range
\* leaves the window does not succeed.
C9_WindowBounds ==
    \A i \in 1..Len(io) :
        LET c == io[i]
        IN  (c.res.kind = "return" /\ SizeOf(c) > 0)
            => /\ InWindow(c)
               /\ c.op = "read" => Len(c.res.value) = c.size

\* a read that starts inside the window, runs past its end, and returns
\* fewer bytes than asked
C9_Witness ==
    \E i \in 1..Len(io) :
        /\ io[i].op = "read" /\ io[i].res.kind = "return"
        /\ 0 <= AddrOf(io[i]) /\ AddrOf(io[i]) < MAP_SIZE
        /\ AddrOf(io[i]) + io[i].size > MAP_SIZE
        /\ Len(io[i].res.value) = MAP_SIZE - AddrOf(io[i])

(***************************************************************************)
(* Session specification: one transport object is constructed, uploads     *)
(* images, and is destroyed.                                               *)
(***************************************************************************)
Section(name, fields) == [name |-> name, fields |-> fields]

WithTemplate(t) == Section("77777", ("pr_template" :> t) @@ ("builddate" :> "x"))
Untagged == Section("77777", ("builddate" :> "x"))

Metas ==
    { << >>,
      << Untagged >>,
      << WithTemplate("tA") >>,
      << WithTemplate("tB") >>,
      << WithTemplate("tA"), WithTemplate("tB") >>,
      << Untagged, WithTemplate("tA") >> }

\* raw contents: a header and a short payload, the same without the
\* sentinel, and a header followed by a truncated gzip member
Contents ==
    { SENTINEL \o << 1, 2, 3 >>,
      << 97, 98, 99 >>,
      SENTINEL \o GZIP_MAGIC \o << 200 >> }

SessionImages ==
    { [fpg_ok |-> TRUE, readable |-> TRUE, meta |-> m, bytes |-> b] :
        m \in Metas, b \in Contents }
    \cup { [fpg_ok |-> FALSE, readable |-> TRUE, meta |-> << WithTemplate("tB") >>,
            bytes |-> SENTINEL \o << 1, 2, 3 >>],
           [fpg_ok |-> TRUE, readable |-> FALSE, meta |-> << >>, bytes |-> << >>] }

Hosts ==
    { IntTarget(0), StrTarget(PCIE \o << "0", "2" >>), StrTarget(XDMA \o << "1" >>),
      StrTarget(XDMA \o << "7" >>), StrTarget(XDMA) }

Kwargs ==
    [ parent_fpga : BOOLEAN, host : Hosts,
      fpgfile : { << >> } \cup { << i >> : i \in SessionImages } ]

Init ==
    /\ pc = "new"
    /\ attrs = {}
    /\ fh_state = [opened |-> 0, closed |-> 0]
    /\ mm_state = [mapped |-> 0, closed |-> 0]
    /\ fpg_template = None
    /\ axid = << >>
    /\ call = NoCall
    /\ IdleResolver /\ IdleExtractor /\ IdleWindow

Construct ==
    /\ pc = "new"
    /\ \E kw \in Kwargs, open_ok \in BOOLEAN, mmap_ok \in BOOLEAN :
          LET r == init(kw, open_ok, mmap_ok)
          IN  /\ pc' = IF r.kind = "return" THEN "connected" ELSE "failed"
              /\ attrs' = r.attrs
              /\ fh_state' = [fh_state EXCEPT !.opened = r.opened]
              /\ mm_state' = [mm_state EXCEPT !.mapped = r.mapped]
              /\ fpg_template' = r.template
              /\ call' = [op |-> "init", n |-> 0, kind |-> r.kind]
    /\ UNCHANGED << axid, resolverVars, extractorVars, windowVars >>

Upload ==
    /\ pc = "connected"
    /\ call.n < MaxUploads
    /\ \E image \in SessionImages, stream_ok \in BOOLEAN :
          LET r == upload_to_ram_and_program(fpg_template, image, stream_ok)
          IN  /\ fpg_template' = r.template
              /\ axid' = axid \o r.streamed
              /\ call' = [op |-> "upload", n |-> call.n + 1, image |-> image,
                          res |-> r, kind |-> r.kind]
    /\ UNCHANGED << pc, attrs, fh_state, mm_state,
                    resolverVars, extractorVars, windowVars >>

Del ==
    /\ pc \in { "connected", "failed" }
    /\ LET r == del(attrs)
       IN  /\ pc' = "deleted"
           /\ mm_state' = [mm_state EXCEPT !.closed = @ + r.mm_closed]
           /\ fh_state' = [fh_state EXCEPT !.closed = @ + r.fh_closed]
           /\ call' = [op |-> "del", n |-> call.n, kind |-> r.kind]
    /\ UNCHANGED << attrs, fpg_template, axid,
                    resolverVars, extractorVars, windowVars >>

Next == Construct \/ Upload \/ Del

Spec == Init /\ [][Next]_vars

\* C1: once the session records a template T, T stays recorded whatever is
\* uploaded, and the upload of a readable .fpg image whose template differs
\* from T (an image without a template included) fails with the
\* template-mismatch error.
C1_TemplateLock ==
    [][ (pc = "connected" /\ fpg_template # None)
        => /\ fpg_template' = fpg_template
           /\ (/\ call'.op = "upload" /\ call'.n = call.n + 1
               /\ call'.image.fpg_ok /\ call'.image.readable
               /\ TemplateOf(call'.image.meta) # fpg_template)
              => /\ call'.kind = "RuntimeError"
                 /\ call'.res.programmed = fpg_template
                 /\ call'.res.supplied = TemplateOf(call'.image.meta)
                 /\ axid' = axid ]_vars

C1_Witness ==
    /\ pc = "connected" /\ fpg_template = "tA"
    /\ call.op = "upload" /\ call.n = 2 /\ call.kind = "RuntimeError"
    /\ call.image.meta = << Untagged >>

\* C7: an upload of an image without the sentinel fails with a format error
\* and streams nothing to the programming device.
C7_UploadFailsWithoutSentinel ==
    (call.op = "upload" /\ call.image.fpg_ok /\ call.image.readable
        /\ ~HasSentinel(call.image.bytes))
    => (call.kind \notin { "return" } /\ call.res.streamed = << >>)

\* an upload of a file without the sentinel that returned and streamed
C7_Witness ==
    /\ call.op = "upload" /\ call.kind = "return"
    /\ ~HasSentinel(call.image.bytes)
    /\ axid # << >>

\* C10: after teardown every control-plane handle that was opened is closed
\* and every mapping that was created is unmapped, each exactly once, and
\* teardown does not fail.
C10_TeardownReleases ==
    pc = "deleted"
    => /\ call.kind = "return"
       /\ fh_state.closed = fh_state.opened
       /\ mm_state.closed = mm_state.mapped

\* teardown after the device was opened and the mapping failed
C10_Witness ==
    /\ pc = "deleted" /\ call.kind = "AttributeError"
    /\ fh_state = [opened |-> 1, closed |-> 0]
    /\ mm_state = [mapped |-> 0, closed |-> 0]

\* what the code does keep: teardown of a fully constructed session
C10_TeardownAfterInit ==
    (pc = "deleted" /\ "axil_mm" \in attrs)
    => /\ call.kind = "return"
       /\ fh_state = [opened |-> 1, closed |-> 1]
       /\ mm_state = [mapped |-> 1, closed |-> 1]

====
